---- MODULE Spec2Model ----
(***************************************************************************)
(* A model of pyplyslice (src/pyplyslice/io.py, src/pyplyslice/ui.py):     *)
(* the plane definition from landmarks, the slice at the glabella, the     *)
(* angular ordering of the slice's vertices, the CSV dump, the single-file *)
(* pipeline and the batch driver.                                          *)
(*                                                                         *)
(* Coordinates are integers (a lattice of millimetres).  A Python          *)
(* exception is the name of its class in the field "raised" of a call's    *)
(* outcome; "none" is a normal return.  A unit vector is carried as the    *)
(* integer vector it is the normalisation of.                              *)
(***************************************************************************)
EXTENDS Integers, Sequences, FiniteSets, Bags, TLC

VARIABLES
    mode,           \* which entry point the behaviour exercises
    seriesIsView,   \* pandas build: DataFrame column selection is a view
    dir,            \* the scan directory: stem -> [mesh, lm]
    sub,            \* the stems that lie in a subdirectory of scan_path
    written,        \* the CSV files on disk: <<dir, name, z>> -> rows
    args,           \* the arguments of the call being made
    pc,             \* position in batch_slice_pipeline
    todo,           \* scan files the glob has not yielded yet
    total_count,    \* io.py:154
    found_count,    \* io.py:155
    processed,      \* stems whose slice_pipeline call has returned or raised
    last,           \* outcome of the latest slice_pipeline call
    calls,          \* number of calls made so far
    vertices,       \* sort_slice_vertices: mesh_slice.vertices
    sorted,         \* sort_slice_vertices(vertices)
    resorted,       \* sort_slice_vertices applied to its own output
    landmarks,      \* a LandmarkSet held by the caller of slice_at_glabella
    returned        \* the Z coordinates successive slice_at_glabella calls returned

vars == <<mode, seriesIsView, dir, sub, written, args, pc, todo, total_count,
          found_count, processed, last, calls, vertices, sorted, resorted,
          landmarks, returned>>

\* Python's None, where a path, an array or a table is expected.
None == <<>>

\* Bounds of the model.
NumFiles == 3
MaxLen == 3
GridMax == 2
MaxCalls == 1
MaxSlices == 3
HgMax == 2
MaxOffset == 1
ScenarioValid == 3
ScenarioMissing == 2

(***************************************************************************)
(* Exceptions and paths.                                                   *)
(***************************************************************************)

\* A path is <<directory>> or <<directory, stem, suffix>>.
ScanDir == <<"scans">>
SubDir == <<"scans/sub">>
OutDir == <<"out">>
NoDir == <<"nowhere">>

\* The directories that exist on disk; NoDir does not.
ExistingDirs == {ScanDir, SubDir, OutDir}

\* pathlib: Path.parent, Path.stem, Path.with_suffix (io.py:119,121,124).
Parent(p) == <<p[1]>>
Stem(p) == p[2]
WithSuffixKept(p, s) == p
WithSuffix(p, s) == <<p[1], p[2], s>>

\* The directory a scan of the given stem lies in.
DirOf(stem) == IF stem \in sub THEN SubDir[1] ELSE ScanDir[1]
ScanPath(stem) == <<DirOf(stem), stem, ".ply">>

\* pathlib: Path.exists (io.py:126).  A landmark file exists when the
\* directory holds one beside the scan of the same stem.
exists(p) ==
    IF Len(p) = 1 THEN p \in ExistingDirs
    ELSE /\ p[2] \in DOMAIN dir
         /\ p[1] = DirOf(p[2])
         /\ \/ p[3] = ".ply"
            \/ p[3] = ".txt" /\ dir[p[2]].lm # "absent"

(***************************************************************************)
(* The catalogue of landmark tables and meshes the files may hold.         *)
(***************************************************************************)

\* Landmark tables as parse_landmarks returns them: name -> <<x, y, z>>.
FullTable ==
    [r_t_r |-> <<0, 0, 0>>, f_t_l |-> <<4, 0, 0>>, k_or_r |-> <<0, 3, 0>>,
     h_g |-> <<2, 4, 1>>]

Without(t, name) == [n \in (DOMAIN t) \ {name} |-> t[n]]

Tables ==
    [full |-> FullTable,
     collinear |-> [FullTable EXCEPT !.k_or_r = <<8, 0, 0>>],
     no_r_t_r |-> Without(FullTable, "r_t_r"),
     no_f_t_l |-> Without(FullTable, "f_t_l"),
     no_k_or_r |-> Without(FullTable, "k_or_r"),
     no_h_g |-> Without(FullTable, "h_g")]

\* A mesh is a prism over a ring of <<x, y>> columns between zlo and zhi.
Meshes ==
    [head |-> [ring |-> <<<<0, 0>>, <<4, 4>>, <<4, 0>>, <<0, 4>>>>, zlo |-> 0, zhi |-> 40],
     flat |-> [ring |-> <<<<0, 0>>, <<4, 4>>, <<4, 0>>, <<0, 4>>>>, zlo |-> 0, zhi |-> 10]]

\* What a scan and the landmark file beside it may be, as a directory that
\* holds one scan of every kind.
CatalogueDir ==
    <<[mesh |-> "head", lm |-> "full"],
      [mesh |-> "head", lm |-> "absent"],
      [mesh |-> "head", lm |-> "malformed"],
      [mesh |-> "head", lm |-> "collinear"],
      [mesh |-> "head", lm |-> "no_r_t_r"],
      [mesh |-> "head", lm |-> "no_f_t_l"],
      [mesh |-> "head", lm |-> "no_k_or_r"],
      [mesh |-> "head", lm |-> "no_h_g"],
      [mesh |-> "corrupt", lm |-> "full"],
      [mesh |-> "flat", lm |-> "full"],
      [mesh |-> "corrupt", lm |-> "absent"]>>

FileKinds == {CatalogueDir[f] : f \in DOMAIN CatalogueDir}

(***************************************************************************)
(* calculate_plane_normal (io.py:14-26).                                   *)
(***************************************************************************)

Minus(a, b) == <<a[1] - b[1], a[2] - b[2], a[3] - b[3]>>
Dot(a, b) == a[1] * b[1] + a[2] * b[2] + a[3] * b[3]
Cross(a, b) ==
    <<a[2] * b[3] - a[3] * b[2], a[3] * b[1] - a[1] * b[3], a[1] * b[2] - a[2] * b[1]>>

\* trimesh.triangles.normals: the cross product of the triangle's two edge
\* vectors, unitized; the normals of zero length are dropped from the
\* result ("is face nonzero"), so a degenerate triangle gives an empty array.
normals(tri) ==
    LET crosses == Cross(Minus(tri[2], tri[1]), Minus(tri[3], tri[2]))
    IN IF crosses = <<0, 0, 0>> THEN <<>> ELSE crosses

TriNames == {"r_t_r", "f_t_l", "k_or_r"}

\* calculate_plane_normal with a lookup that fills a missing landmark in with
\* the origin instead of raising.
calculate_plane_normal_defaulting(lms) ==
    LET at(n) == IF n \in DOMAIN lms THEN lms[n] ELSE <<0, 0, 0>>
    IN [raised |-> "none", value |-> normals(<<at("r_t_r"), at("f_t_l"), at("k_or_r")>>)]

\* landmarks[[...]] raises KeyError on a missing column (io.py:23).
calculate_plane_normal(lms) ==
    IF ~(TriNames \subseteq DOMAIN lms)
    THEN [raised |-> "KeyError", value |-> <<>>]
    ELSE [raised |-> "none",
          value |-> normals(<<lms.r_t_r, lms.f_t_l, lms.k_or_r>>)]

(***************************************************************************)
(* sort_slice_vertices (io.py:29-37).                                      *)
(***************************************************************************)

SetMin(S) == CHOOSE m \in S : \A x \in S : m <= x
SetMax(S) == CHOOSE m \in S : \A x \in S : x <= m

\* mesh_slice.centroid: the centre of the bounding box of the vertices,
\* doubled to stay on the lattice.
centroid2(vs) ==
    LET xs == {vs[i][1] : i \in DOMAIN vs}
        ys == {vs[i][2] : i \in DOMAIN vs}
    IN <<SetMin(xs) + SetMax(xs), SetMin(ys) + SetMax(ys)>>

\* normalized_x, normalized_y (io.py:31-32), doubled.
normalized(v, c2) == <<2 * v[1] - c2[1], 2 * v[2] - c2[2]>>

\* np.arctan2(normalized_x, normalized_y) (io.py:34) lies in (-pi, pi].
\* ThetaBand is the part of that range the angle falls in: below 0, 0,
\* between 0 and pi, pi.
ThetaBand(n) ==
    IF n[1] < 0 THEN 0
    ELSE IF n[1] > 0 THEN 2
    ELSE IF n[2] >= 0 THEN 1 ELSE 3

\* theta(a) < theta(b): by band, and inside an open half turn by the sign of
\* the cross product of the two directions.
ThetaLess(a, b) ==
    \/ ThetaBand(a) < ThetaBand(b)
    \/ /\ ThetaBand(a) = ThetaBand(b)
       /\ ThetaBand(a) \in {0, 2}
       /\ a[2] * b[1] - a[1] * b[2] > 0

\* np.argsort(theta) (io.py:35) with the default kind: quicksort, which is
\* not stable, so the order among equal angles is whatever the build gives.
argsort(vs) ==
    LET c2 == centroid2(vs)
        n == [i \in DOMAIN vs |-> normalized(vs[i], c2)]
    IN {p \in Permutations(DOMAIN vs) :
            \A i \in DOMAIN vs : \A j \in DOMAIN vs :
                i < j => ~ThetaLess(n[p[j]], n[p[i]])}

\* sort_slice_vertices ordering the distinct rows only, as np.unique would
\* hand them over.
sort_slice_vertices_unique(vs) ==
    LET rows == {vs[i] : i \in DOMAIN vs}
        c2 == centroid2(vs)
    IN {s \in [1..Cardinality(rows) -> rows] :
            /\ \A r \in rows : \E i \in DOMAIN s : s[i] = r
            /\ \A i \in DOMAIN s : \A j \in DOMAIN s :
                i < j => ~ThetaLess(normalized(s[j], c2), normalized(s[i], c2))}

\* The arrays sort_slice_vertices may return: mesh_slice.vertices[sort_idx, :].
sort_slice_vertices(vs) ==
    {[i \in DOMAIN vs |-> vs[p[i]]] : p \in argsort(vs)}

(***************************************************************************)
(* slice_at_glabella (io.py:40-61).                                        *)
(***************************************************************************)

\* z_offset_mm's default (io.py:41).
ZOffsetDefault == 15

Corners(mesh) ==
    {<<mesh.ring[i][1], mesh.ring[i][2], z>> :
        i \in DOMAIN mesh.ring, z \in {mesh.zlo, mesh.zhi}}

\* The z at which the plane crosses the column over <<x, y>>.
PlaneZ(normal, origin, x, y) ==
    IF normal[3] = 0 THEN origin[3]
    ELSE origin[3] - ((normal[1] * (x - origin[1]) + normal[2] * (y - origin[2]))
                      \div normal[3])

\* mesh.section (io.py:59): the geometry kernel.  A normal that is not a
\* 3-vector is refused with ValueError; a plane that misses the mesh gives
\* None; otherwise the Path3D's vertices, in the kernel's own order.
section(mesh, normal, origin) ==
    IF Len(normal) # 3 THEN [raised |-> "ValueError", value |-> None]
    ELSE IF /\ \E c \in Corners(mesh) : Dot(normal, Minus(c, origin)) < 0
            /\ \E c \in Corners(mesh) : Dot(normal, Minus(c, origin)) > 0
    THEN [raised |-> "none",
          value |-> [i \in DOMAIN mesh.ring |->
                        <<mesh.ring[i][1], mesh.ring[i][2],
                          PlaneZ(normal, origin, mesh.ring[i][1], mesh.ring[i][2])>>]]
    ELSE [raised |-> "none", value |-> None]

\* plane_origin_xyz.z += z_offset_mm (io.py:55-56): plane_origin_xyz is the
\* column landmarks["h_g"], so the addition reaches the caller's table when
\* pandas hands the column out as a view, and not when it hands out a copy.
OffsetInPlace(lms, z_offset_mm) ==
    IF seriesIsView
    THEN [lms EXCEPT !.h_g = <<lms.h_g[1], lms.h_g[2], lms.h_g[3] + z_offset_mm>>]
    ELSE lms

\* The outcome of slice_at_glabella: the exception raised if any, the slice
\* and Z returned (read only when nothing was raised), the normal
\* calculate_plane_normal gave, the caller's table after the call, and the
\* calls made.
slice_at_glabella(mesh, lms, z_offset_mm) ==
    LET n == calculate_plane_normal(lms) IN
    IF n.raised # "none"
    THEN [raised |-> n.raised, slice |-> None, z |-> 0, normal |-> None,
          landmarks |-> lms, log |-> <<"calculate_plane_normal">>]
    ELSE IF "h_g" \notin DOMAIN lms
    THEN [raised |-> "KeyError", slice |-> None, z |-> 0, normal |-> n.value,
          landmarks |-> lms, log |-> <<"calculate_plane_normal">>]
    ELSE LET origin == <<lms.h_g[1], lms.h_g[2], lms.h_g[3] + z_offset_mm>>
             sec == section(mesh, n.value, origin)
         IN [raised |-> sec.raised,
             slice |-> sec.value,
             z |-> origin[3],
             normal |-> n.value,
             landmarks |-> OffsetInPlace(lms, z_offset_mm),
             log |-> <<"calculate_plane_normal", "section">>]

(***************************************************************************)
(* slice_to_csv (io.py:64-85) and parse_landmarks (io.py:88-98).           *)
(***************************************************************************)

\* out_dir / f"{scan_name}_zslice_{slice_z:.0f}.CSV" (io.py:77-78); slice_z
\* is on the lattice, so ".0f" prints it as it is.
OutFilepath(out_dir, scan_name, slice_z) == <<out_dir[1], scan_name, slice_z>>

\* The outcomes of slice_to_csv on the files w: sorting None raises
\* AttributeError (mesh_slice.vertices, io.py:31); np.savetxt raises OSError
\* when the directory does not exist, and otherwise replaces the file.
slice_to_csv(w, mesh_slice, scan_name, slice_z, out_dir) ==
    IF mesh_slice = None
    THEN {[raised |-> "AttributeError", written |-> w,
           log |-> <<"sort_slice_vertices">>]}
    ELSE {IF out_dir \notin ExistingDirs
          THEN [raised |-> "OSError", written |-> w,
                log |-> <<"sort_slice_vertices", "savetxt">>]
          ELSE [raised |-> "none",
                written |-> (OutFilepath(out_dir, scan_name, slice_z) :> rows) @@ w,
                log |-> <<"sort_slice_vertices", "savetxt">>]
          : rows \in sort_slice_vertices(mesh_slice)}

\* pd.read_csv(filepath, sep=" ", index_col=0).T: a directory cannot be
\* opened (OSError), nor can a file that is not there (FileNotFoundError); a
\* file that is not a table of landmarks does not parse (ParserError).
parse_landmarks(filepath) ==
    IF Len(filepath) = 1 THEN [raised |-> "OSError", value |-> None]
    ELSE IF ~exists(filepath)
    THEN [raised |-> "FileNotFoundError", value |-> None]
    ELSE IF filepath[3] # ".txt" \/ dir[Stem(filepath)].lm = "malformed"
    THEN [raised |-> "ParserError", value |-> None]
    ELSE [raised |-> "none", value |-> Tables[dir[Stem(filepath)].lm]]

\* trimesh.load_mesh (io.py:130).
load_mesh(scan_filepath) ==
    IF dir[Stem(scan_filepath)].mesh = "corrupt"
    THEN [raised |-> "LoadError", value |-> None]
    ELSE [raised |-> "none", value |-> Meshes[dir[Stem(scan_filepath)].mesh]]

(***************************************************************************)
(* slice_pipeline (io.py:101-136).                                         *)
(***************************************************************************)

\* An outcome of slice_pipeline: ret is the boolean returned ("none" when an
\* exception left the call), log the calls made, in order, before and
\* written the CSV files on disk as the call found and left them.
Outcome(scan, lmpath, out, ret, raised, log, w0, w, normal, slice) ==
    [scan |-> scan, landmarks_filepath |-> lmpath, out_dir |-> out, ret |-> ret,
     raised |-> raised, log |-> log, before |-> w0, written |-> w,
     normal |-> normal, slice |-> slice]

slice_pipeline(w, scan_filepath, landmarks_filepath, out_dir) ==
    LET out == IF out_dir = None THEN Parent(scan_filepath) ELSE out_dir
        scan_name == Stem(scan_filepath)
        lmpath == IF landmarks_filepath = None
                  THEN WithSuffix(scan_filepath, ".txt")
                  ELSE landmarks_filepath
        mesh == load_mesh(scan_filepath)
        lms == parse_landmarks(lmpath)
        O(ret, raised, log, w2, normal, slice) ==
            Outcome(scan_filepath, lmpath, out, ret, raised, log, w, w2, normal, slice)
    IN
    IF ~exists(lmpath)
    THEN {O("False", "none", <<>>, w, None, None)}
    ELSE IF mesh.raised # "none"
    THEN {O("none", mesh.raised, <<"load_mesh">>, w, None, None)}
    ELSE IF lms.raised # "none"
    THEN {O("none", lms.raised, <<"load_mesh", "parse_landmarks">>, w, None, None)}
    ELSE LET g == slice_at_glabella(mesh.value, lms.value, ZOffsetDefault)
             glog == <<"load_mesh", "parse_landmarks">> \o g.log
         IN IF g.raised # "none"
            THEN {O("none", g.raised, glog, w, g.normal, None)}
            ELSE {O(IF c.raised = "none" THEN "True" ELSE "none", c.raised,
                    glog \o c.log, c.written, g.normal, g.slice)
                  : c \in slice_to_csv(w, g.slice, scan_name, g.z, out)}

(***************************************************************************)
(* batch_slice_pipeline (io.py:139-163) and its caller ui.batch.           *)
(***************************************************************************)

NoOutcome == Outcome(None, None, None, "none", "none", <<>>, <<>>, <<>>, None, None)

NoArgs == [scan_path |-> None, out_dir |-> None, recurse |-> FALSE]

\* scan_path.glob(glob_pattern) (io.py:150-156): "*.ply" yields the scans of
\* the directory itself, "**/*.ply" those of its subdirectories as well.
glob(recurse) == {f \in DOMAIN dir : recurse \/ f \notin sub}

\* slice_pipeline(scan_filepath, out_dir) (io.py:158): both arguments are
\* positional, so out_dir binds to the second parameter, landmarks_filepath,
\* and the third, out_dir, keeps its default.
BatchPipelineCall(w, scan_filepath, out_dir) ==
    slice_pipeline(w, scan_filepath, out_dir, None)

BatchCall ==
    /\ mode = "batch"
    /\ pc = "call"
    /\ pc' = "loop"
    /\ todo' = glob(args.recurse)
    /\ total_count' = 0
    /\ found_count' = 0
    /\ UNCHANGED <<mode, seriesIsView, dir, sub, written, args, processed, last,
                   calls, vertices, sorted, resorted, landmarks, returned>>

\* One turn of the loop (io.py:156-161); an exception raised by
\* slice_pipeline is not caught and leaves batch_slice_pipeline.
BatchIter ==
    /\ mode = "batch"
    /\ pc = "loop"
    /\ \E f \in todo : \E r \in BatchPipelineCall(written, ScanPath(f), args.out_dir) :
        /\ todo' = todo \ {f}
        /\ total_count' = total_count + 1
        /\ processed' = processed \cup {f}
        /\ last' = r
        /\ written' = r.written
        /\ calls' = calls + 1
        /\ pc' = IF r.raised # "none" THEN "raised" ELSE "loop"
        /\ found_count' = IF r.raised = "none" /\ r.ret = "True"
                          THEN found_count + 1 ELSE found_count
    /\ UNCHANGED <<mode, seriesIsView, dir, sub, args, vertices, sorted, resorted,
                   landmarks, returned>>

\* The report (io.py:163).
BatchReport ==
    /\ mode = "batch"
    /\ pc = "loop"
    /\ todo = {}
    /\ pc' = "done"
    /\ UNCHANGED <<mode, seriesIsView, dir, sub, written, args, todo, total_count,
                   found_count, processed, last, calls, vertices, sorted, resorted,
                   landmarks, returned>>

\* The arguments a batch run may be called with.
BatchArgs ==
    [scan_path : {ScanDir}, out_dir : {None, OutDir, NoDir}, recurse : BOOLEAN]

InitBatch(dirs) ==
    /\ mode = "batch"
    /\ seriesIsView \in BOOLEAN
    /\ dir \in dirs
    /\ sub \in {{}, {SetMax(DOMAIN dir)}}
    /\ written = <<>>
    /\ args \in BatchArgs
    /\ pc = "call"
    /\ todo = {}
    /\ total_count = 0
    /\ found_count = 0
    /\ processed = {}
    /\ last = NoOutcome
    /\ calls = 0
    /\ vertices = <<>>
    /\ sorted = <<>>
    /\ resorted = <<>>
    /\ landmarks = <<>>
    /\ returned = <<>>

Init == InitBatch([1..NumFiles -> FileKinds])

Next == BatchCall \/ BatchIter \/ BatchReport

Spec == Init /\ [][Next]_vars

\* The directory of the batch scenario: valid scan and landmark pairs, and
\* scans with no landmark file beside them.
ValidPair == [mesh |-> "head", lm |-> "full"]
NoLandmarks == [mesh |-> "head", lm |-> "absent"]

ScenarioDir ==
    [f \in 1..(ScenarioValid + ScenarioMissing) |->
        IF f <= ScenarioValid THEN ValidPair ELSE NoLandmarks]

InitScenario == InitBatch({ScenarioDir})

SpecScenario == InitScenario /\ [][Next]_vars

(***************************************************************************)
(* slice_pipeline called on its own (ui.single, io.py:101-136).            *)
(***************************************************************************)

\* The arguments slice_pipeline may be called with.
PipelineArgs ==
    [scan_filepath : {ScanPath(f) : f \in DOMAIN dir},
     landmarks_filepath :
        {None, OutDir} \cup {WithSuffix(ScanPath(f), ".txt") : f \in DOMAIN dir},
     out_dir : {None, OutDir, NoDir}]

SlicePipelineCall ==
    /\ mode = "single"
    /\ calls < MaxCalls
    /\ \E a \in PipelineArgs :
        \E r \in slice_pipeline(written, a.scan_filepath, a.landmarks_filepath, a.out_dir) :
            /\ args' = a
            /\ last' = r
            /\ written' = r.written
            /\ calls' = calls + 1
    /\ UNCHANGED <<mode, seriesIsView, dir, sub, pc, todo, total_count, found_count,
                   processed, vertices, sorted, resorted, landmarks, returned>>

\* The output a run of the pipeline on scan 1 left in the scan directory
\* some time ago, from another mesh.
StaleFiles == OutFilepath(ScanDir, 1, FullTable.h_g[3] + ZOffsetDefault) :> <<<<9, 9, 9>>>>

InitSingle ==
    /\ mode = "single"
    /\ seriesIsView \in BOOLEAN
    /\ dir = CatalogueDir
    /\ sub = {}
    /\ written \in {<<>>, StaleFiles}
    /\ args = [scan_filepath |-> None, landmarks_filepath |-> None, out_dir |-> None]
    /\ pc = "call"
    /\ todo = {}
    /\ total_count = 0
    /\ found_count = 0
    /\ processed = {}
    /\ last = NoOutcome
    /\ calls = 0
    /\ vertices = <<>>
    /\ sorted = <<>>
    /\ resorted = <<>>
    /\ landmarks = <<>>
    /\ returned = <<>>

NextSingle == SlicePipelineCall

SpecSingle == InitSingle /\ [][NextSingle]_vars

(***************************************************************************)
(* sort_slice_vertices called on a slice, and again on its own output.     *)
(***************************************************************************)

\* The vertices of a slice: points of the cutting plane, here z = 0.
Points == {<<x, y, 0>> : x \in 0..GridMax, y \in 0..GridMax}

Slices == UNION {[1..n -> Points] : n \in 1..MaxLen}

SortCall ==
    /\ mode = "sort"
    /\ pc = "input"
    /\ sorted' \in sort_slice_vertices(vertices)
    /\ pc' = "sorted"
    /\ UNCHANGED <<mode, seriesIsView, dir, sub, written, args, todo, total_count,
                   found_count, processed, last, calls, vertices, resorted,
                   landmarks, returned>>

SortAgain ==
    /\ mode = "sort"
    /\ pc = "sorted"
    /\ resorted' \in sort_slice_vertices(sorted)
    /\ pc' = "resorted"
    /\ UNCHANGED <<mode, seriesIsView, dir, sub, written, args, todo, total_count,
                   found_count, processed, last, calls, vertices, sorted,
                   landmarks, returned>>

InitSort ==
    /\ mode = "sort"
    /\ seriesIsView = FALSE
    /\ dir = <<>>
    /\ sub = {}
    /\ written = <<>>
    /\ args = NoArgs
    /\ pc = "input"
    /\ todo = {}
    /\ total_count = 0
    /\ found_count = 0
    /\ processed = {}
    /\ last = NoOutcome
    /\ calls = 0
    /\ vertices \in Slices
    /\ sorted = <<>>
    /\ resorted = <<>>
    /\ landmarks = <<>>
    /\ returned = <<>>

NextSort == SortCall \/ SortAgain

SpecSort == InitSort /\ [][NextSort]_vars

(***************************************************************************)
(* slice_at_glabella called repeatedly on one LandmarkSet.                 *)
(***************************************************************************)

\* The tables of the catalogue, the glabella at any height of the bound.
GlabellaTables ==
    {IF "h_g" \in DOMAIN Tables[k]
     THEN [Tables[k] EXCEPT !.h_g = <<@[1], @[2], z>>]
     ELSE Tables[k]
     : k \in DOMAIN Tables, z \in 0..HgMax}

GlabellaArgs ==
    [mesh : DOMAIN Meshes, landmarks : GlabellaTables,
     z_offset_mm : (0..MaxOffset) \cup {ZOffsetDefault}]

SliceAtGlabellaCall ==
    /\ mode = "glabella"
    /\ calls < MaxSlices
    /\ LET g == slice_at_glabella(Meshes[args.mesh], landmarks, args.z_offset_mm)
       IN /\ landmarks' = g.landmarks
          /\ returned' = Append(returned, [raised |-> g.raised, z |-> g.z,
                                           normal |-> g.normal, slice |-> g.slice,
                                           log |-> g.log])
    /\ calls' = calls + 1
    /\ UNCHANGED <<mode, seriesIsView, dir, sub, written, args, pc, todo,
                   total_count, found_count, processed, last, vertices, sorted,
                   resorted>>

InitGlabella ==
    /\ mode = "glabella"
    /\ seriesIsView \in BOOLEAN
    /\ dir = <<>>
    /\ sub = {}
    /\ written = <<>>
    /\ args \in GlabellaArgs
    /\ pc = "call"
    /\ todo = {}
    /\ total_count = 0
    /\ found_count = 0
    /\ processed = {}
    /\ last = NoOutcome
    /\ calls = 0
    /\ vertices = <<>>
    /\ sorted = <<>>
    /\ resorted = <<>>
    /\ landmarks = args.landmarks
    /\ returned = <<>>

NextGlabella == SliceAtGlabellaCall

SpecGlabella == InitGlabella /\ [][NextGlabella]_vars

(***************************************************************************)
(* The claims.                                                             *)
(***************************************************************************)

RequiredNames == {"f_t_l", "r_t_r", "k_or_r", "h_g"}

\* The scans the batch run discovers.
Discovered == glob(args.recurse)

\* C1: a failure raised inside one file's pipeline does not abort the batch:
\* batch_slice_pipeline never ends by raising, and when it reports, every
\* discovered scan has been processed.  Stated of the runs ui.batch starts,
\* which pass no out_dir, so that each landmark file is looked for beside
\* its scan.
C1_BatchSurvivesFailures ==
    (mode = "batch" /\ args.out_dir = None) =>
        /\ pc # "raised"
        /\ pc = "done" => processed = Discovered

\* C2: the success count never exceeds the total, and over a directory of
\* ScenarioValid valid pairs and ScenarioMissing scans without a landmark
\* file the batch call does not raise and reports ScenarioValid of
\* ScenarioValid + ScenarioMissing.
C2_ScenarioReport ==
    /\ pc # "raised"
    /\ found_count <= total_count
    /\ (pc = "done" /\ Discovered = DOMAIN dir) =>
            /\ total_count = ScenarioValid + ScenarioMissing
            /\ found_count = ScenarioValid

\* The landmark file of a slice_pipeline call: the explicit path if given,
\* otherwise the scan's path with the extension ".txt".
LandmarkFileOf(a) ==
    IF a.landmarks_filepath = None
    THEN <<a.scan_filepath[1], a.scan_filepath[2], ".txt">>
    ELSE a.landmarks_filepath

\* C3: when the landmark file does not exist, slice_pipeline returns False
\* without raising, without loading the mesh or making any other call, and
\* leaves every output file as it was.
C3_MissingLandmarksFileSkipped ==
    (calls > 0 /\ ~exists(LandmarkFileOf(args))) =>
        /\ last.ret = "False"
        /\ last.raised = "none"
        /\ last.log = <<>>
        /\ last.written = last.before
        /\ written = last.before

\* C3's case: the landmark file is looked for beside a scan that cannot be
\* loaded, with an output file of an earlier run on disk.
C3_Witness ==
    /\ calls > 0
    /\ args.landmarks_filepath = None
    /\ ~exists(LandmarkFileOf(args))
    /\ dir[Stem(args.scan_filepath)].mesh = "corrupt"
    /\ last.before = StaleFiles
    /\ last.ret = "False"

\* The call reached the kernel with a proper normal, and the plane missed
\* the mesh.
EmptySliceCase ==
    /\ calls > 0
    /\ Len(last.log) >= 4
    /\ last.log[4] = "section"
    /\ Len(last.normal) = 3
    /\ last.slice = None

\* C4: a plane that does not intersect the mesh ends the call with
\* EmptySliceError, before the contour is ordered or a file written.
C4_EmptySliceSignalled ==
    EmptySliceCase =>
        /\ last.raised = "EmptySliceError"
        /\ \A i \in DOMAIN last.log : last.log[i] \notin {"sort_slice_vertices", "savetxt"}

\* The landmarks r_t_r, f_t_l, k_or_r of a table lie on one line.
Collinear(t) ==
    Cross(Minus(t.f_t_l, t.r_t_r), Minus(t.k_or_r, t.r_t_r)) = <<0, 0, 0>>

\* C5: three collinear landmarks end plane construction with
\* DegenerateGeometryError, and calculate_plane_normal never returns a
\* vector that is empty or zero.
C5_CollinearRaises ==
    (calls > 0 /\ Len(last.log) >= 3) =>
        LET t == Tables[dir[Stem(last.landmarks_filepath)].lm] IN
        /\ (TriNames \subseteq DOMAIN t /\ Collinear(t)) =>
                last.raised = "DegenerateGeometryError"
        /\ (TriNames \subseteq DOMAIN t /\ "section" \in {last.log[i] : i \in DOMAIN last.log}) =>
                (Len(last.normal) = 3 /\ last.normal # <<0, 0, 0>>)

\* The LandmarkSet slice_at_glabella was first called on lacks a required name.
LacksRequired == ~(RequiredNames \subseteq DOMAIN args.landmarks)

RowBag(s) ==
    [r \in {s[i] : i \in DOMAIN s} |-> Cardinality({i \in DOMAIN s : s[i] = r})]

\* C7: sort_slice_vertices returns a permutation of its input: the same
\* rows with the same multiplicities.
C7_SortIsPermutation ==
    /\ pc \in {"sorted", "resorted"} =>
            (Len(sorted) = Len(vertices) /\ RowBag(sorted) = RowBag(vertices))
    /\ pc = "resorted" =>
            (Len(resorted) = Len(sorted) /\ RowBag(resorted) = RowBag(sorted))

\* C7's case: an input with a repeated point that the sort reorders.
C7_Witness ==
    /\ pc = "sorted"
    /\ \E i \in DOMAIN vertices : \E j \in DOMAIN vertices :
            i # j /\ vertices[i] = vertices[j]
    /\ sorted # vertices

\* C8: sort_slice_vertices applied to its own output returns that output.
C8_SortIdempotent ==
    pc = "resorted" => resorted = sorted

\* C9: with an explicit out_dir, each per-file pipeline of a batch run looks
\* for the landmark file beside the scan and writes into out_dir.
C9_OutDirIsOutputOnly ==
    (mode = "batch" /\ calls > 0 /\ args.out_dir # None) =>
        /\ last.landmarks_filepath = <<last.scan[1], last.scan[2], ".txt">>
        /\ last.landmarks_filepath # args.out_dir
        /\ last.out_dir = args.out_dir

\* C10: slice_at_glabella leaves the caller's LandmarkSet as it was, and each
\* successive call with offset d returns Z = h_g.z + d.
C10_LandmarksUnchanged ==
    mode = "glabella" =>
        /\ landmarks = args.landmarks
        /\ \A i \in DOMAIN returned :
            returned[i].raised = "none" =>
                returned[i].z = args.landmarks.h_g[3] + args.z_offset_mm

====
